---- MODULE Spec2Model ----
(***************************************************************************)
(* The upload pipeline of gphotos: func run() of the command (path source, *)
(* N upload workers, the token-stream closer, the batcher, the reporter    *)
(* and g.Wait) together with Uploader.CreateMediaItems of uploader.go.     *)
(*                                                                         *)
(* Channels: filenames and messages are unbuffered (a send is a rendezvous *)
(* with a receiver blocked in its receive), uploadTokens is buffered with  *)
(* capacity MaxUploadTokensPerCreateMediaItemsCall.  A Go select with more *)
(* than one ready case picks any one of them.                              *)
(***************************************************************************)
EXTENDS Integers, Sequences, FiniteSets, TLC

\* ---------------------------------------------------------------- bounds
\* Longest command line (flag.Args()) explored; a run with c workers is explored
\* with up to MaxFiles + 1 - c files.
MaxFiles == 5
\* Largest -upload-concurrency explored.
MaxWorkers == 2
\* Attempts retry.Do makes before giving up (the library's default budget, scaled down).
Attempts == 2
\* gphotos.MaxUploadTokensPerCreateMediaItemsCall (50 in uploader.go), scaled down.
MaxUploadTokensPerCreateMediaItemsCall == 2

VARIABLES
  args,              \* flag.Args(): the input list, entry i is file i
  uploadConcurrency, \* the -upload-concurrency flag (> 0)
  ctxDone,           \* the errgroup context has been cancelled
  gErr,              \* errgroup: the error recorded by errOnce
  srcpc, srcIdx,     \* path source: position, index of the next entry to send
  filenamesClosed,   \* close(filenames) has run
  wpc, wfile, wn, werr, \* per worker: position, current filename, retry attempt, return value
  wgCount,           \* sync.WaitGroup counter
  uploadTokens,      \* buffer of the uploadTokens channel
  tokensClosed,      \* close(uploadTokens) has run
  bpc, currentBatch, bn, bfinal, berr, \* batcher: position, batch, retry attempt, in final flush, return value
  srcerr,            \* path source: return value
  reppc, repmsg,     \* reporter: position, message received and not yet printed
  messagesClosed,    \* close(messages) has run
  runRet,            \* what run()'s pipeline part returned
  \* ---- history (observations of the collaborators, not program state)
  received,          \* per input entry: times a worker received it from filenames
  uploadCalled,      \* uploadFile has been attempted at least once
  openFailed,        \* os.Open has failed in some uploadFile attempt
  produced,          \* per input entry: tokens returned by successful uploads
  handedOff,         \* number of tokens sent on uploadTokens
  commits,           \* successful CreateMediaItems calls, in order
  commitFailed,      \* some CreateMediaItems attempt has failed
  tooMany,           \* CreateMediaItems returned its "too many tokens" error
  msgCount,          \* progress messages sent on messages
  fileMsgs,          \* per input entry: "uploaded <file>" messages sent
  batchMsgs,         \* "uploaded batch of <n> photos" messages sent
  printed            \* messages the reporter has written out

vars == <<args, uploadConcurrency, ctxDone, gErr, srcpc, srcIdx, filenamesClosed,
          wpc, wfile, wn, werr, wgCount, uploadTokens, tokensClosed,
          bpc, currentBatch, bn, bfinal, berr, srcerr, reppc, repmsg,
          messagesClosed, runRet, received, uploadCalled, openFailed, produced, handedOff,
          commits, commitFailed, tooMany, msgCount, fileMsgs, batchMsgs, printed>>

\* ---------------------------------------------------------------- errors
Err(k, f) == [kind |-> k, file |-> f]
NoErr == Err("nil", 0)
Pending == Err("pending", 0)
\* ctx.Err() once the context is cancelled
CtxErr == Err("canceled", 0)
\* errors.Wrapf(err, "error uploading %q", filename)
UploadErr(f) == Err("upload", f)
\* the error retry.Do returns for CreateMediaItems
CommitErr == Err("commit", 0)

\* (variant: the loop that starts the workers runs once too often)
WorkersOneMore == 1..(uploadConcurrency + 1)
\* for i := 0; i < uploadConcurrency; i++ { ... g.Go(worker) }
Workers == 1..uploadConcurrency
Files == 1..Len(args)

\* ---------------------------------------------------------------- helpers
\* (variant: the last non-nil error returned by a task overwrites the recorded one)
RecordLast(cur, err) == IF err = NoErr THEN cur ELSE err
\* errgroup.Group.Go: errOnce keeps the first non-nil error and cancels the context.
RecordErr(cur, err) == IF err # NoErr /\ cur = NoErr THEN err ELSE cur

\* errgroup: a task returning a non-nil error cancels the context.
CancelOn(done, err) == done \/ err # NoErr

\* (variant: the budget check is off by one and allows one more attempt)
RetryOneMore(n) == n >= Attempts
\* retry.Do: the attempt with index n (from 0) was the last one of the budget.
RetryExhausted(n) == n >= Attempts - 1

\* (variant: the loop does not advance and sends the same entry again)
StayIndex(i) == i
\* the range loop of the path source moves to the next entry after a send.
NextIndex(i) == i + 1

\* (variant: a plain send, with no <-ctx.Done() case)
SrcNoDoneCase == FALSE
\* select of the path source: the <-ctx.Done() case is ready.
SrcDoneReady == ctxDone

\* (variant: the token stream never blocks a sender)
TokenSendAlways(buf) == TRUE
\* select of a worker's token send: the send case is ready (a free buffer slot).
TokenSendReady(buf) == Len(buf) < MaxUploadTokensPerCreateMediaItemsCall

\* (variant: the threshold is off by one, > instead of >=)
FlushDueLate(batch) == Len(batch) > MaxUploadTokensPerCreateMediaItemsCall
\* (variant: every token is flushed as soon as it arrives)
FlushDueEager(batch) == Len(batch) >= 1
\* batcher loop: len(currentBatch) >= MaxUploadTokensPerCreateMediaItemsCall
FlushDue(batch) == Len(batch) >= MaxUploadTokensPerCreateMediaItemsCall

\* (variant: uploadBatch without its empty-batch return)
NeverEmpty(batch) == FALSE
\* uploadBatch: if len(batch) == 0 { return nil }
EmptyBatch(batch) == Len(batch) = 0

\* (variant: the batch is not cleared after a flush)
KeepBatch(batch) == batch
\* batcher loop: currentBatch = []gphotos.UploadToken{} after a flush
ResetBatch(batch) == <<>>

\* (variant: the received token is not appended)
DropToken(batch, tok) == batch
\* batcher loop: currentBatch = append(currentBatch, uploadToken)
AppendToken(batch, tok) == Append(batch, tok)

\* (variant: the closer waits for the first worker only)
WgWaitEarly == wgCount < uploadConcurrency
\* wg.Wait() returns: every wg.Add(1) has been matched by a wg.Done()
WgWaitDone == wgCount = 0

\* Uploader.CreateMediaItems: the length check that rejects the call
TooManyTokens(tokens) == Len(tokens) > MaxUploadTokensPerCreateMediaItemsCall

\* fmt.Sprintf("uploaded %q", filename) / fmt.Sprintf("uploaded batch of %v photos", len(batch))
FileMsg(f) == [kind |-> "file", n |-> f]
\* (variant: the message reports the batch capacity instead of len(batch))
BatchMsgCapacity(batch) == [kind |-> "batch", n |-> MaxUploadTokensPerCreateMediaItemsCall]
BatchMsg(batch) == [kind |-> "batch", n |-> Len(batch)]
NoMsg == [kind |-> "none", n |-> 0]

\* (variant: the batcher is started outside the group, so g.Wait does not wait for it)
AllTasksButBatcher == /\ srcpc = "done"
                      /\ \A w \in Workers : wpc[w] = "done"
\* g.Wait: every task started with g.Go has returned.
AllTasksDone == /\ srcpc = "done"
                /\ bpc = "done"
                /\ \A w \in Workers : wpc[w] = "done"

\* ---------------------------------------------------------------- initial state
Init ==
  /\ uploadConcurrency \in 1..MaxWorkers
  /\ \E n \in 0..(MaxFiles + 1 - uploadConcurrency) : args = [i \in 1..n |-> i]
  /\ ctxDone = FALSE
  /\ gErr = NoErr
  /\ srcpc = "loop" /\ srcIdx = 1 /\ srcerr = Pending
  /\ filenamesClosed = FALSE
  /\ wpc = [w \in Workers |-> "recv"]
  /\ wfile = [w \in Workers |-> 0]
  /\ wn = [w \in Workers |-> 0]
  /\ werr = [w \in Workers |-> Pending]
  /\ wgCount = Cardinality(Workers)
  /\ uploadTokens = <<>>
  /\ tokensClosed = FALSE
  /\ bpc = "recv" /\ currentBatch = <<>> /\ bn = 0 /\ bfinal = FALSE /\ berr = Pending
  /\ reppc = "recv" /\ repmsg = NoMsg
  /\ messagesClosed = FALSE
  /\ runRet = Pending
  /\ received = [f \in Files |-> 0]
  /\ uploadCalled = FALSE
  /\ openFailed = FALSE
  /\ produced = [f \in Files |-> 0]
  /\ handedOff = 0
  /\ commits = <<>>
  /\ commitFailed = FALSE
  /\ tooMany = FALSE
  /\ msgCount = 0
  /\ fileMsgs = [f \in Files |-> 0]
  /\ batchMsgs = 0
  /\ printed = 0

srcVars == <<srcpc, srcIdx, srcerr, filenamesClosed>>
workerVars == <<wpc, wfile, wn, werr, wgCount>>
batcherVars == <<bpc, currentBatch, bn, bfinal, berr>>
reporterVars == <<reppc, repmsg>>
groupVars == <<ctxDone, gErr>>
inputVars == <<args, uploadConcurrency>>
uploadHist == <<received, uploadCalled, openFailed, produced>>
commitHist == <<commits, commitFailed, tooMany>>
sendHist == <<handedOff, msgCount, fileMsgs, batchMsgs, printed>>

\* ---------------------------------------------------------------- path source
\* select case filenames <- filename, taken with a worker blocked in range filenames
SrcSend(w) ==
  /\ srcpc = "loop" /\ srcIdx <= Len(args)
  /\ wpc[w] = "recv" /\ ~filenamesClosed
  /\ wpc' = [wpc EXCEPT ![w] = "upload"]
  /\ wfile' = [wfile EXCEPT ![w] = args[srcIdx]]
  /\ wn' = [wn EXCEPT ![w] = 0]
  /\ received' = [received EXCEPT ![args[srcIdx]] = @ + 1]
  /\ srcIdx' = NextIndex(srcIdx)
  /\ UNCHANGED <<srcpc, srcerr, filenamesClosed, werr, wgCount, uploadTokens, tokensClosed,
                 batcherVars, reporterVars, groupVars, inputVars, messagesClosed, runRet,
                 uploadCalled, openFailed, produced, commitHist, sendHist>>

\* select case <-ctx.Done(): return ctx.Err(), with the deferred close(filenames)
SrcCancelled ==
  /\ srcpc = "loop" /\ srcIdx <= Len(args)
  /\ SrcDoneReady
  /\ srcpc' = "done" /\ srcerr' = CtxErr
  /\ filenamesClosed' = TRUE
  /\ gErr' = RecordErr(gErr, CtxErr)
  /\ ctxDone' = CancelOn(ctxDone, CtxErr)
  /\ UNCHANGED <<srcIdx, workerVars, uploadTokens, tokensClosed, batcherVars, reporterVars,
                 inputVars, messagesClosed, runRet, uploadHist, commitHist, sendHist>>

\* the range over flag.Args() is over: return nil, with the deferred close(filenames)
SrcFinish ==
  /\ srcpc = "loop" /\ srcIdx > Len(args)
  /\ srcpc' = "done" /\ srcerr' = NoErr
  /\ filenamesClosed' = TRUE
  /\ gErr' = RecordErr(gErr, NoErr)
  /\ ctxDone' = CancelOn(ctxDone, NoErr)
  /\ UNCHANGED <<srcIdx, workerVars, uploadTokens, tokensClosed, batcherVars, reporterVars,
                 inputVars, messagesClosed, runRet, uploadHist, commitHist, sendHist>>

\* ---------------------------------------------------------------- upload workers
\* range filenames ends on the closed channel: return nil, with the deferred wg.Done()
WorkerFilenamesClosed(w) ==
  /\ wpc[w] = "recv" /\ filenamesClosed
  /\ wpc' = [wpc EXCEPT ![w] = "exit"]
  /\ werr' = [werr EXCEPT ![w] = NoErr]
  /\ wgCount' = wgCount - 1
  /\ UNCHANGED <<wfile, wn, srcVars, uploadTokens, tokensClosed, batcherVars, reporterVars,
                 groupVars, inputVars, messagesClosed, runRet, uploadHist, commitHist, sendHist>>

\* one attempt of retry.Do(uploadFile) succeeds: uploadToken is set
WorkerUploadOk(w) ==
  /\ wpc[w] = "upload"
  /\ uploadCalled' = TRUE
  /\ produced' = [produced EXCEPT ![wfile[w]] = @ + 1]
  /\ wpc' = [wpc EXCEPT ![w] = "sendToken"]
  /\ wn' = [wn EXCEPT ![w] = 0]
  /\ UNCHANGED <<wfile, werr, wgCount, srcVars, uploadTokens, tokensClosed, batcherVars,
                 reporterVars, groupVars, inputVars, messagesClosed, runRet, received,
                 openFailed, commitHist, sendHist>>

\* retry.Do after a failed attempt of worker w: try again, or return the wrapped
\* error once the budget is spent (with the deferred wg.Done())
RetryOrReturn(w) ==
  IF RetryExhausted(wn[w])
    THEN /\ wpc' = [wpc EXCEPT ![w] = "exit"]
         /\ werr' = [werr EXCEPT ![w] = UploadErr(wfile[w])]
         /\ wgCount' = wgCount - 1
         /\ wn' = [wn EXCEPT ![w] = 0]
    ELSE /\ wn' = [wn EXCEPT ![w] = @ + 1]
         /\ UNCHANGED <<wpc, werr, wgCount>>

\* one attempt of retry.Do(uploadFile) fails in os.Open: u.Upload is not called
WorkerOpenFail(w) ==
  /\ wpc[w] = "upload"
  /\ uploadCalled' = TRUE
  /\ openFailed' = TRUE
  /\ RetryOrReturn(w)
  /\ UNCHANGED <<wfile, srcVars, uploadTokens, tokensClosed, batcherVars, reporterVars,
                 groupVars, inputVars, messagesClosed, runRet, received, produced,
                 commitHist, sendHist>>

\* one attempt of retry.Do(uploadFile) fails in u.Upload
WorkerUploadFail(w) ==
  /\ wpc[w] = "upload"
  /\ uploadCalled' = TRUE
  /\ RetryOrReturn(w)
  /\ UNCHANGED <<wfile, srcVars, uploadTokens, tokensClosed, batcherVars, reporterVars,
                 groupVars, inputVars, messagesClosed, runRet, received, openFailed,
                 produced, commitHist, sendHist>>

\* select case uploadTokens <- uploadToken
WorkerSendToken(w) ==
  /\ wpc[w] = "sendToken"
  /\ ~tokensClosed
  /\ TokenSendReady(uploadTokens)
  /\ uploadTokens' = Append(uploadTokens, wfile[w])
  /\ handedOff' = handedOff + 1
  /\ wpc' = [wpc EXCEPT ![w] = "sendMessage"]
  /\ UNCHANGED <<wfile, wn, werr, wgCount, srcVars, tokensClosed, batcherVars, reporterVars,
                 groupVars, inputVars, messagesClosed, runRet, uploadHist, commitHist,
                 msgCount, fileMsgs, batchMsgs, printed>>

\* select case messages <- "uploaded <filename>", taken with the reporter blocked in
\* range messages; the worker goes back to range filenames
WorkerSendMessage(w) ==
  /\ wpc[w] = "sendMessage"
  /\ reppc = "recv" /\ ~messagesClosed
  /\ reppc' = "print" /\ repmsg' = FileMsg(wfile[w])
  /\ msgCount' = msgCount + 1
  /\ fileMsgs' = [fileMsgs EXCEPT ![wfile[w]] = @ + 1]
  /\ wpc' = [wpc EXCEPT ![w] = "recv"]
  /\ wfile' = [wfile EXCEPT ![w] = 0]
  /\ wn' = [wn EXCEPT ![w] = 0]
  /\ UNCHANGED <<werr, wgCount, srcVars, uploadTokens, tokensClosed, batcherVars,
                 groupVars, inputVars, messagesClosed, runRet, uploadHist, commitHist,
                 handedOff, batchMsgs, printed>>

\* select case <-ctx.Done() of either send: return ctx.Err(), with the deferred wg.Done()
WorkerCancelled(w) ==
  /\ wpc[w] \in {"sendToken", "sendMessage"}
  /\ ctxDone
  /\ wpc' = [wpc EXCEPT ![w] = "exit"]
  /\ werr' = [werr EXCEPT ![w] = CtxErr]
  /\ wgCount' = wgCount - 1
  /\ UNCHANGED <<wfile, wn, srcVars, uploadTokens, tokensClosed, batcherVars, reporterVars,
                 groupVars, inputVars, messagesClosed, runRet, uploadHist, commitHist, sendHist>>

\* errgroup.Group.Go wrapper after the worker's function returned: errOnce, cancel, Done
WorkerJoin(w) ==
  /\ wpc[w] = "exit"
  /\ gErr' = RecordErr(gErr, werr[w])
  /\ ctxDone' = CancelOn(ctxDone, werr[w])
  /\ wpc' = [wpc EXCEPT ![w] = "done"]
  /\ UNCHANGED <<wfile, wn, werr, wgCount, srcVars, uploadTokens, tokensClosed, batcherVars,
                 reporterVars, inputVars, messagesClosed, runRet, uploadHist, commitHist,
                 sendHist>>

\* go func() { wg.Wait(); close(uploadTokens) }()
CloseTokens ==
  /\ ~tokensClosed
  /\ WgWaitDone
  /\ tokensClosed' = TRUE
  /\ UNCHANGED <<srcVars, workerVars, uploadTokens, batcherVars, reporterVars, groupVars,
                 inputVars, messagesClosed, runRet, uploadHist, commitHist, sendHist>>

\* ---------------------------------------------------------------- batcher
\* The batcher returns err: its g.Go wrapper records it (errOnce, cancel, Done).
BatcherReturn(err) ==
  /\ bpc' = "done" /\ berr' = err
  /\ gErr' = RecordErr(gErr, err)
  /\ ctxDone' = CancelOn(ctxDone, err)

\* range uploadTokens yields a token: append it, and flush with uploadBatch if the
\* batch is full (uploadBatch returns nil at once on an empty batch)
BatcherRecv ==
  /\ bpc = "recv" /\ Len(uploadTokens) > 0
  /\ uploadTokens' = Tail(uploadTokens)
  /\ LET batch == AppendToken(currentBatch, Head(uploadTokens))
     IN IF FlushDue(batch)
          THEN IF EmptyBatch(batch)
                 THEN currentBatch' = ResetBatch(batch) /\ bpc' = "recv"
                 ELSE currentBatch' = batch /\ bpc' = "commit"
          ELSE currentBatch' = batch /\ bpc' = "recv"
  /\ bn' = 0 /\ bfinal' = FALSE
  /\ UNCHANGED <<berr, srcVars, workerVars, tokensClosed, reporterVars, groupVars, inputVars,
                 messagesClosed, runRet, uploadHist, commitHist, sendHist>>

\* range uploadTokens ends (closed and drained): return uploadBatch(currentBatch),
\* which returns nil at once on an empty batch
BatcherDrained ==
  /\ bpc = "recv" /\ Len(uploadTokens) = 0 /\ tokensClosed
  /\ IF EmptyBatch(currentBatch)
       THEN /\ BatcherReturn(NoErr)
            /\ UNCHANGED <<bn, bfinal>>
       ELSE /\ bpc' = "commit" /\ bn' = 0 /\ bfinal' = TRUE
            /\ UNCHANGED <<berr, groupVars>>
  /\ UNCHANGED <<currentBatch, srcVars, workerVars, uploadTokens, tokensClosed, reporterVars,
                 inputVars, messagesClosed, runRet, uploadHist, commitHist, sendHist>>

\* one attempt of retry.Do(u.CreateMediaItems(batch)) succeeds
BatcherCommitOk ==
  /\ bpc = "commit"
  /\ ~TooManyTokens(currentBatch)
  /\ commits' = Append(commits, [tokens |-> currentBatch, closed |-> tokensClosed,
                                 final |-> bfinal])
  /\ bpc' = "sendMessage" /\ bn' = 0
  /\ UNCHANGED <<currentBatch, bfinal, berr, srcVars, workerVars, uploadTokens,
                 tokensClosed, reporterVars, groupVars, inputVars, messagesClosed, runRet,
                 uploadHist, commitFailed, tooMany, sendHist>>

\* one attempt of retry.Do(u.CreateMediaItems(batch)) fails (the length check, or
\* BatchCreate): retry, or return the error once the budget is spent
BatcherCommitFail ==
  /\ bpc = "commit"
  /\ commitFailed' = TRUE
  /\ tooMany' = (tooMany \/ TooManyTokens(currentBatch))
  /\ IF RetryExhausted(bn)
       THEN BatcherReturn(CommitErr) /\ bn' = 0
       ELSE bn' = bn + 1 /\ UNCHANGED <<bpc, berr, groupVars>>
  /\ UNCHANGED <<currentBatch, bfinal, srcVars, workerVars, uploadTokens, tokensClosed,
                 reporterVars, inputVars, messagesClosed, runRet, uploadHist, commits,
                 sendHist>>

\* uploadBatch: select case messages <- "uploaded batch of <n> photos"; uploadBatch
\* returns nil, so the loop starts a new batch, or the batcher returns nil
BatcherSendMessage ==
  /\ bpc = "sendMessage"
  /\ reppc = "recv" /\ ~messagesClosed
  /\ reppc' = "print" /\ repmsg' = BatchMsg(currentBatch)
  /\ msgCount' = msgCount + 1
  /\ batchMsgs' = batchMsgs + 1
  /\ IF bfinal
       THEN BatcherReturn(NoErr) /\ currentBatch' = currentBatch
       ELSE /\ bpc' = "recv" /\ currentBatch' = ResetBatch(currentBatch)
            /\ UNCHANGED <<berr, groupVars>>
  /\ UNCHANGED <<bn, bfinal, srcVars, workerVars, uploadTokens, tokensClosed, inputVars,
                 messagesClosed, runRet, uploadHist, commitHist, handedOff, fileMsgs,
                 printed>>

\* uploadBatch: select case <-ctx.Done(): return ctx.Err()
BatcherCancelled ==
  /\ bpc = "sendMessage"
  /\ ctxDone
  /\ BatcherReturn(CtxErr)
  /\ UNCHANGED <<currentBatch, bn, bfinal, srcVars, workerVars, uploadTokens, tokensClosed,
                 reporterVars, inputVars, messagesClosed, runRet, uploadHist, commitHist,
                 sendHist>>

\* ---------------------------------------------------------------- reporter
\* fmt.Printf("%v\n", message), then back to range messages
ReporterPrint ==
  /\ reppc = "print"
  /\ reppc' = "recv" /\ repmsg' = NoMsg
  /\ printed' = printed + 1
  /\ UNCHANGED <<srcVars, workerVars, uploadTokens, tokensClosed, batcherVars, groupVars,
                 inputVars, messagesClosed, runRet, uploadHist, commitHist, handedOff,
                 msgCount, fileMsgs, batchMsgs>>

\* range messages ends on the closed channel
ReporterExit ==
  /\ reppc = "recv" /\ messagesClosed
  /\ reppc' = "done"
  /\ UNCHANGED <<repmsg, srcVars, workerVars, uploadTokens, tokensClosed, batcherVars,
                 groupVars, inputVars, messagesClosed, runRet, uploadHist, commitHist,
                 sendHist>>

\* ---------------------------------------------------------------- coordinator
\* g.Wait() returns once every task is done: it cancels the context and returns the
\* recorded error; run returns, and the deferred close(messages) runs
Wait ==
  /\ runRet = Pending
  /\ AllTasksDone
  /\ ctxDone' = TRUE
  /\ runRet' = gErr
  /\ messagesClosed' = TRUE
  /\ UNCHANGED <<gErr, srcVars, workerVars, uploadTokens, tokensClosed, batcherVars,
                 reporterVars, inputVars, uploadHist, commitHist, sendHist>>

\* ---------------------------------------------------------------- specification
Source == SrcCancelled \/ SrcFinish \/ \E w \in Workers : SrcSend(w)

Worker(w) ==
  \/ WorkerFilenamesClosed(w)
  \/ WorkerUploadOk(w)
  \/ WorkerOpenFail(w)
  \/ WorkerUploadFail(w)
  \/ WorkerSendToken(w)
  \/ WorkerSendMessage(w)
  \/ WorkerCancelled(w)
  \/ WorkerJoin(w)

Batcher ==
  \/ BatcherRecv
  \/ BatcherDrained
  \/ BatcherCommitOk
  \/ BatcherCommitFail
  \/ BatcherSendMessage
  \/ BatcherCancelled

Reporter == ReporterPrint \/ ReporterExit

Next ==
  \/ \E w \in Workers : SrcSend(w)
  \/ SrcCancelled
  \/ SrcFinish
  \/ \E w \in Workers : WorkerFilenamesClosed(w)
  \/ \E w \in Workers : WorkerUploadOk(w)
  \/ \E w \in Workers : WorkerOpenFail(w)
  \/ \E w \in Workers : WorkerUploadFail(w)
  \/ \E w \in Workers : WorkerSendToken(w)
  \/ \E w \in Workers : WorkerSendMessage(w)
  \/ \E w \in Workers : WorkerCancelled(w)
  \/ \E w \in Workers : WorkerJoin(w)
  \/ CloseTokens
  \/ BatcherRecv
  \/ BatcherDrained
  \/ BatcherCommitOk
  \/ BatcherCommitFail
  \/ BatcherSendMessage
  \/ BatcherCancelled
  \/ ReporterPrint
  \/ ReporterExit
  \/ Wait

Spec == Init /\ [][Next]_vars

\* Every goroutine that can take a step eventually takes one (the Go scheduler
\* starves no runnable goroutine), and every upload and commit attempt returns.
Fairness ==
  /\ WF_vars(Source)
  /\ \A w \in 1..MaxWorkers : WF_vars(w \in Workers /\ Worker(w))
  /\ WF_vars(CloseTokens)
  /\ WF_vars(Batcher)
  /\ WF_vars(Reporter)
  /\ WF_vars(Wait)

\* The runs explored for termination: c workers with up to MaxFiles + 2 - 2c files.
FairInit == Init /\ Len(args) + 2 * uploadConcurrency <= MaxFiles + 2

FairSpec == FairInit /\ [][Next]_vars /\ Fairness

\* ---------------------------------------------------------------- observations
\* Number of times token f occurs in tokens.
RECURSIVE Occurrences(_, _)
Occurrences(tokens, f) ==
  IF tokens = <<>> THEN 0
  ELSE (IF Head(tokens) = f THEN 1 ELSE 0) + Occurrences(Tail(tokens), f)

\* Number of times token f was passed to a successful commit call.
RECURSIVE CommittedCount(_, _)
CommittedCount(cs, f) ==
  IF cs = <<>> THEN 0
  ELSE Occurrences(Head(cs).tokens, f) + CommittedCount(Tail(cs), f)

\* Sizes of the successful commit calls, in flush order.
CommitSizes == [i \in 1..Len(commits) |-> Len(commits[i].tokens)]

\* M repeated floor(n/M) times, then n mod M if that is positive.
ExpectedSizes(n) ==
  LET M == MaxUploadTokensPerCreateMediaItemsCall
      full == n \div M
      rest == n % M
  IN [i \in 1..(full + (IF rest > 0 THEN 1 ELSE 0)) |-> IF i <= full THEN M ELSE rest]

AllUploaded == \A f \in Files : produced[f] = 1

TaskErrs == {srcerr, berr} \cup {werr[w] : w \in Workers}

\* Every goroutine of the run has exited and both shared streams are closed.
Terminated ==
  /\ AllTasksDone
  /\ tokensClosed
  /\ runRet # Pending
  /\ messagesClosed
  /\ reppc = "done"

\* ---------------------------------------------------------------- claims

\* C1: in every run that returns success, the multiset of tokens passed to
\* successful commit calls equals the multiset of tokens returned by successful
\* uploads: none is lost and none is committed twice.
C1_CommittedEqualsUploaded ==
  runRet = NoErr =>
    \A f \in Files : CommittedCount(commits, f) = produced[f]

\* C1 witness: a successful run of several workers with several batches, one of
\* which needed a retry.
C1_Witness ==
  /\ runRet = NoErr
  /\ uploadConcurrency > 1
  /\ Len(commits) >= 2
  /\ commitFailed

\* C2: the in-progress batch never exceeds the maximum, every commit call gets
\* between 1 and the maximum tokens, every batch but the last has exactly the
\* maximum, a batch committed before the token stream closed has exactly the
\* maximum, and CreateMediaItems never rejects a call for too many tokens.
C2_BatchBounds ==
  LET M == MaxUploadTokensPerCreateMediaItemsCall
  IN /\ Len(currentBatch) <= M
     /\ bpc = "commit" => (Len(currentBatch) >= 1 /\ Len(currentBatch) <= M)
     /\ bpc = "commit" /\ ~tokensClosed => Len(currentBatch) = M
     /\ \A i \in 1..Len(commits) :
          /\ Len(commits[i].tokens) >= 1
          /\ Len(commits[i].tokens) <= M
          /\ ~commits[i].closed => Len(commits[i].tokens) = M
          /\ i < Len(commits) => Len(commits[i].tokens) = M
     /\ ~tooMany

\* C2 witness: a full batch committed while the token stream was open, then a
\* shorter final batch.
C2_Witness ==
  /\ Len(commits) >= 2
  /\ ~commits[1].closed
  /\ Len(commits[1].tokens) = MaxUploadTokensPerCreateMediaItemsCall
  /\ Len(commits[Len(commits)].tokens) < MaxUploadTokensPerCreateMediaItemsCall

\* C3: each entry of the input list is received from filenames at most once and
\* held by at most one worker, so each file yields at most one upload.
C3_NoDoubleDispatch ==
  \A f \in Files :
    /\ received[f] <= 1
    /\ produced[f] <= 1
    /\ Cardinality({w \in Workers : wfile[w] = f}) <= 1

\* C3 witness: two workers hold two different files of a list whose entries
\* have all been dispatched.
C3_Witness ==
  /\ Len(args) >= 3
  /\ \A f \in Files : received[f] = 1
  /\ \E v, w \in Workers : wfile[v] # 0 /\ wfile[w] # 0 /\ wfile[v] # wfile[w]

\* C4 (as stated): once a worker's upload error has been recorded and the context
\* cancelled, no further path is dispatched to any worker.
C4_NoDispatchAfterUploadFailure ==
  [][(ctxDone /\ gErr.kind = "upload") => received' = received]_vars

\* C5: under fair scheduling every run terminates, failed or not: every task
\* exits, the token stream is closed, g.Wait returns, the message stream is
\* closed and the reporter exits.
C5_Terminates == <>Terminated

\* C5 witness: a failed run has fully shut down, some worker having been cancelled.
C5_Witness ==
  /\ Terminated
  /\ runRet.kind \in {"upload", "commit"}
  /\ \E w \in Workers : werr[w] = CtxErr

\* C6 (as stated): once the context is cancelled no further token is handed to the
\* token stream and no further progress message is sent.
C6_NoSendAfterCancel ==
  [][ctxDone => (handedOff' = handedOff /\ msgCount' = msgCount)]_vars

\* C7: run returns only after every task has finished; it returns the error
\* errOnce recorded first, which is an upload or commit failure some task
\* returned and never a cancellation error; and it returns success exactly when
\* every task returned nil.
C7_FirstGenuineError ==
  /\ [](/\ runRet # Pending => AllTasksDone
        /\ runRet.kind # "canceled"
        /\ gErr.kind # "canceled"
        /\ gErr # NoErr => gErr \in TaskErrs
        /\ ctxDone /\ runRet = Pending => gErr.kind \in {"upload", "commit"}
        /\ runRet # Pending => (runRet = NoErr <=> TaskErrs = {NoErr}))
  /\ [][gErr # NoErr => gErr' = gErr]_vars

\* C7 witness: run returned an upload failure although the batcher and the path
\* source, or another worker, returned cancellation errors.
C7_Witness ==
  /\ runRet.kind = "upload"
  /\ berr = CtxErr
  /\ \E w \in Workers : werr[w] = CtxErr

\* C8: in a successful run of N uploads with no failed commit attempt, the sizes
\* of the commit calls in flush order are the maximum repeated floor(N/M) times,
\* then N mod M if positive; an empty trailing batch is not committed.
C8_CommitSizes ==
  (runRet = NoErr /\ ~commitFailed) =>
    /\ AllUploaded
    /\ CommitSizes = ExpectedSizes(Len(args))

\* C8 witness: two full batches and a trailing partial one (sizes M, M, 1).
C8_Witness ==
  /\ runRet = NoErr /\ ~commitFailed
  /\ Len(args) = 2 * MaxUploadTokensPerCreateMediaItemsCall + 1
  /\ CommitSizes = <<MaxUploadTokensPerCreateMediaItemsCall,
                     MaxUploadTokensPerCreateMediaItemsCall, 1>>

\* C9 (as stated, for N >= 1): with N <= M files all uploaded and no failed commit
\* attempt, exactly one commit call occurs, it holds all N tokens, and it is made
\* only after the token stream was closed and drained.
C9_OneCommitAfterExhaustion ==
  (/\ Len(args) >= 1 /\ Len(args) <= MaxUploadTokensPerCreateMediaItemsCall
   /\ AllUploaded /\ ~commitFailed) =>
    /\ Len(commits) <= 1
    /\ bpc = "done" =>
         /\ Len(commits) = 1
         /\ Len(commits[1].tokens) = Len(args)
         /\ \A f \in Files : Occurrences(commits[1].tokens, f) = 1
    /\ \A i \in 1..Len(commits) : commits[i].closed /\ commits[i].final
    /\ bpc = "commit" => (tokensClosed /\ bfinal)

\* C9 (amended): with 1 <= N <= M files all uploaded and no failed commit attempt,
\* exactly one commit call occurs and it holds all N tokens; for N < M it is made
\* only after the token stream was closed and drained, for N = M it is the
\* full-batch flush made on receipt of the M-th token.
C9_OneCommit ==
  (/\ Len(args) >= 1 /\ Len(args) <= MaxUploadTokensPerCreateMediaItemsCall
   /\ AllUploaded /\ ~commitFailed) =>
    /\ Len(commits) <= 1
    /\ bpc = "done" =>
         /\ Len(commits) = 1
         /\ Len(commits[1].tokens) = Len(args)
         /\ \A f \in Files : Occurrences(commits[1].tokens, f) = 1
    /\ Len(args) < MaxUploadTokensPerCreateMediaItemsCall =>
         /\ \A i \in 1..Len(commits) : commits[i].closed /\ commits[i].final
         /\ bpc = "commit" => (tokensClosed /\ bfinal)
    /\ Len(args) = MaxUploadTokensPerCreateMediaItemsCall =>
         /\ \A i \in 1..Len(commits) : ~commits[i].final
         /\ bpc = "commit" => ~bfinal

\* C9 witness: N = M files were committed in one call while the token stream was
\* still open, and the run succeeded.
C9_Witness ==
  /\ Len(args) = MaxUploadTokensPerCreateMediaItemsCall
  /\ runRet = NoErr /\ ~commitFailed
  /\ Len(commits) = 1 /\ ~commits[1].closed

\* C10: with an empty input list the run terminates successfully, and no upload
\* call, no commit call and no progress message is ever made.
C10_EmptyInput ==
  /\ [](Len(args) = 0 =>
          /\ ~uploadCalled
          /\ commits = <<>> /\ ~commitFailed /\ bpc # "commit"
          /\ msgCount = 0 /\ repmsg = NoMsg
          /\ runRet \in {Pending, NoErr})
  /\ (Len(args) = 0) ~> (Len(args) = 0 /\ runRet = NoErr /\ Terminated)

\* C10 witness: the run of an empty list with the most workers has returned success.
C10_Witness ==
  /\ Len(args) = 0
  /\ uploadConcurrency = MaxWorkers
  /\ runRet = NoErr

\* C11 (as stated): a failed os.Open is terminal: the attempt in which the open
\* fails is the worker's last, the file is not opened again by retry.Do.
C11_OpenFailureNotRetried ==
  [][(~openFailed /\ openFailed') =>
       \E w \in Workers : wpc[w] = "upload" /\ wpc'[w] = "exit" /\ wn[w] = 0]_vars

\* C12: the token stream is closed only after every worker has exited (the
\* WaitGroup counter is back to 0), it stays closed and no token is sent on it
\* afterwards, and it is closed in every run, failed or not.
C12_TokenStreamClosedAfterWorkers ==
  /\ [](tokensClosed =>
          /\ wgCount = 0
          /\ \A w \in DOMAIN wpc : wpc[w] \in {"exit", "done"})
  /\ [][tokensClosed => (tokensClosed' /\ handedOff' = handedOff)]_vars
  /\ <>tokensClosed

\* C12 witness: the token stream is closed in a failed run of several workers, one
\* of which was cancelled.
C12_Witness ==
  /\ tokensClosed
  /\ uploadConcurrency > 1
  /\ gErr.kind = "upload"
  /\ \E w \in Workers : werr[w] = CtxErr

\* C13: the message stream is closed only after the path source, every worker and
\* the batcher have terminated and g.Wait has returned, on the success and the
\* failure path; once it is closed it stays closed and no message is sent on it.
C13_MessageStreamClosedLast ==
  /\ [](messagesClosed =>
          /\ srcpc = "done"
          /\ bpc = "done"
          /\ \A w \in DOMAIN wpc : wpc[w] = "done"
          /\ runRet # Pending)
  /\ [][messagesClosed => (messagesClosed' /\ msgCount' = msgCount)]_vars

\* C13 witness: the message stream is closed after a failed run in which messages
\* were sent and a worker was cancelled.
C13_Witness ==
  /\ messagesClosed
  /\ runRet.kind \in {"upload", "commit"}
  /\ msgCount >= 1
  /\ \E w \in Workers : werr[w] = CtxErr

\* C14 (as stated): once the context is cancelled the batcher starts no new commit
\* call, neither a full-batch flush nor the final flush.
C14_NoCommitAfterCancel ==
  [][ctxDone => ~(bpc # "commit" /\ bpc' = "commit")]_vars

\* C15 (as stated): the paths handed to workers are always a prefix of the input
\* list, handed out in input order; the path stream is closed once all are
\* emitted; and once the context is cancelled the source emits no further path
\* and returns the cancellation error.
C15_OrderedUntilCancelled ==
  /\ [](/\ \A f \in Files : received[f] = (IF f < srcIdx THEN 1 ELSE 0)
        /\ filenamesClosed <=> srcpc = "done"
        /\ srcerr = NoErr => srcIdx = Len(args) + 1)
  /\ [][\A f \in Files : received'[f] > received[f] =>
          (f = srcIdx /\ \A g \in 1..(f - 1) : received[g] = 1)]_vars
  /\ [][ctxDone => received' = received]_vars
  /\ [][(ctxDone /\ srcpc = "loop" /\ srcIdx <= Len(args) /\ srcpc' = "done")
          => srcerr' = CtxErr]_vars

\* The ordering part of C15 alone, which the path source does satisfy.
PathsInInputOrder ==
  /\ [](/\ \A f \in Files : received[f] = (IF f < srcIdx THEN 1 ELSE 0)
        /\ filenamesClosed <=> srcpc = "done"
        /\ srcerr = NoErr => srcIdx = Len(args) + 1)
  /\ [][\A f \in Files : received'[f] > received[f] =>
          (f = srcIdx /\ \A g \in 1..(f - 1) : received[g] = 1)]_vars

\* C16: retry.Do makes between 1 and Attempts attempts, stops at the first
\* success and fails only after Attempts failed attempts, for uploadFile and for
\* CreateMediaItems alike; a retried commit re-submits the same batch, and a file
\* yields at most one token, none if its upload is reported failed.
C16_RetryBudget ==
  /\ [](/\ \A w \in Workers : wn[w] >= 0 /\ wn[w] <= Attempts - 1
        /\ bn >= 0 /\ bn <= Attempts - 1
        /\ \A f \in Files : produced[f] <= 1
        /\ \A w \in Workers : werr[w].kind = "upload" => produced[werr[w].file] = 0
        /\ berr = CommitErr =>
             \A i \in 1..Len(currentBatch) : CommittedCount(commits, currentBatch[i]) = 0)
  /\ [][\A w \in Workers : (wpc[w] = "upload" /\ wpc'[w] # "upload") =>
          \/ /\ wpc'[w] = "sendToken"
             /\ produced' = [produced EXCEPT ![wfile[w]] = @ + 1]
          \/ /\ wpc'[w] = "exit"
             /\ wn[w] = Attempts - 1
             /\ werr'[w] = UploadErr(wfile[w])
             /\ produced' = produced]_vars
  /\ [][\A w \in Workers : (wpc[w] = "upload" /\ wpc'[w] = "upload") =>
          \/ wn'[w] = wn[w]
          \/ wn'[w] = wn[w] + 1 /\ wfile' = wfile /\ produced' = produced]_vars
  /\ [][bpc = "commit" =>
          \/ bpc' = "commit" /\ currentBatch' = currentBatch /\ commits' = commits
               /\ bn' \in {bn, bn + 1}
          \/ bpc' = "sendMessage" /\ currentBatch' = currentBatch
               /\ Len(commits') = Len(commits) + 1
               /\ commits'[Len(commits')].tokens = currentBatch
          \/ bpc' = "done" /\ bn = Attempts - 1 /\ berr' = CommitErr
               /\ commits' = commits]_vars

\* C16 witness: a worker and the batcher are both on the last attempt of their
\* budget.
C16_Witness ==
  /\ bpc = "commit" /\ bn = Attempts - 1
  /\ \E w \in Workers : wpc[w] = "upload" /\ wn[w] = Attempts - 1

\* Token f has been handed to the token stream: it is in the channel buffer, in
\* the batcher's batch or in a committed batch.
Handed(f) ==
  \/ Occurrences(uploadTokens, f) > 0
  \/ Occurrences(currentBatch, f) > 0
  \/ CommittedCount(commits, f) > 0

\* C17 (as stated): when run returns, every progress message that was sent has
\* been written out by the reporter.
C17_AllMessagesWritten ==
  runRet # Pending => (printed = msgCount /\ repmsg = NoMsg)

\* C18: an "uploaded <file>" message is sent only after the file's upload
\* succeeded and its token was handed to the token stream, at most once per file; an
\* "uploaded batch of k" message is sent only right after a successful commit of
\* exactly k tokens; a successful run sends exactly one message per file and per
\* committed batch.
C18_MessagesForCompletedWork ==
  /\ [](/\ \A f \in Files : fileMsgs[f] <= 1
        /\ \A f \in Files : fileMsgs[f] = 1 => (produced[f] = 1 /\ Handed(f))
        /\ batchMsgs <= Len(commits)
        /\ Len(commits) <= batchMsgs + 1
        /\ runRet = NoErr =>
             /\ \A f \in Files : fileMsgs[f] = 1
             /\ batchMsgs = Len(commits))
  /\ [][\A f \in Files : fileMsgs'[f] > fileMsgs[f] =>
          /\ produced[f] = 1 /\ Handed(f)
          /\ repmsg' = [kind |-> "file", n |-> f]]_vars
  /\ [][batchMsgs' > batchMsgs =>
          /\ batchMsgs' = Len(commits)
          /\ repmsg'.kind = "batch"
          /\ repmsg'.n = Len(commits[Len(commits)].tokens)]_vars

\* C18 witness: a successful run of at least three files has sent a message for
\* every file and for each of its two or more batches.
C18_Witness ==
  /\ runRet = NoErr
  /\ Len(args) >= 3
  /\ batchMsgs >= 2
  /\ \A f \in Files : fileMsgs[f] = 1

\* Tokens returned by an upload and not (yet) passed to a successful commit call.
Outstanding ==
  Cardinality({f \in Files : produced[f] >= 1 /\ CommittedCount(commits, f) = 0})

C20_ConcurrencyBound ==
  /\ [](Cardinality({w \in DOMAIN wpc : wpc[w] = "upload"}) <= uploadConcurrency)
  /\ [][commits' # commits =>
          (bpc = "commit" /\ Len(commits') = Len(commits) + 1)]_vars
  /\ [][currentBatch' # currentBatch =>
          \/ bpc = "recv" /\ uploadTokens' = Tail(uploadTokens)
          \/ bpc = "sendMessage" /\ bpc' = "recv"]_vars
  /\ [][(\E w \in DOMAIN wpc : wpc'[w] # wpc[w]) =>
          (currentBatch' = currentBatch /\ bpc' = bpc /\ commits' = commits)]_vars

\* C20 witness: every worker of the widest pool is uploading while a commit call
\* is in flight.
C20_Witness ==
  /\ uploadConcurrency = MaxWorkers
  /\ \A w \in Workers : wpc[w] = "upload"
  /\ bpc = "commit"

====
